---- MODULE Spec2Model ----
(***************************************************************************)
(* Model of mprl/util/util_matrix.py: the matrix and tensor helpers        *)
(* build_lower_matrix, reverse_build_matrix, add_expand_dim, to_cholesky,  *)
(* tensor_linspace, indexing_interpolate and get_sub_tensor.               *)
(*                                                                         *)
(* A tensor is a record [shape, at]: shape is the sequence of axis sizes   *)
(* and at maps every index tuple (0-based, one entry per axis) to the      *)
(* element stored there.  Non-integer numbers are carried as an integer    *)
(* numerator over a denominator that the state records next to them.       *)
(* A caller invokes one helper on arguments drawn from bounded sets, the   *)
(* helper returns or raises, and the caller goes back to idle.             *)
(***************************************************************************)
EXTENDS Integers, Sequences, FiniteSets, TLC

VARIABLES fn, input, output, prev

vars == <<fn, input, output, prev>>

\* ------------------------------------------------------------------ bounds
MaxDim == 4
MaxVal == 1
MaxNonZero == 2
MaxCholDim == 2
MaxRank == 2
MaxAdd == 2
MaxIndex == 1
MaxSteps == 3
MaxRows == 3
IndexDen == 2

Vals == 0..MaxVal

\* ----------------------------------------------------- values and tensors
None == [present |-> FALSE, val |-> <<>>]
Some(v) == [present |-> TRUE, val |-> v]

Ok(v) == [ok |-> TRUE, err |-> "", val |-> v]
Raise(e) == [ok |-> FALSE, err |-> e, val |-> <<>>]

Min(a, b) == IF a <= b THEN a ELSE b
Max(a, b) == IF a >= b THEN a ELSE b

Front(s) == SubSeq(s, 1, Len(s) - 1)
Last(s) == s[Len(s)]

RECURSIVE Idx(_)
Idx(shape) ==
    IF shape = <<>> THEN {<<>>}
    ELSE {Append(p, i) : p \in Idx(Front(shape)), i \in 0..(Last(shape) - 1)}

Tensor(shape, f) == [shape |-> shape, at |-> f]
Rank(t) == Len(t.shape)

\* All vectors of length n over S.
Vectors(n, S) == {Tensor(<<n>>, f) : f \in [Idx(<<n>>) -> S]}

\* --------------------------------------------------- torch primitives used
\* torch.tril_indices(nrow, ncol, offset): the coordinates <<r, c>> with
\* c <= r + offset, rows outer, columns inner.
RowCoords(r, ncol, offset) ==
    [k \in 1..Max(0, Min(r + offset + 1, ncol)) |-> <<r, k - 1>>]

RECURSIVE TrilFrom(_, _, _, _)
TrilFrom(r, nrow, ncol, offset) ==
    IF r >= nrow THEN <<>>
    ELSE RowCoords(r, ncol, offset) \o TrilFrom(r + 1, nrow, ncol, offset)

tril_indices(nrow, ncol, offset) == TrilFrom(0, nrow, ncol, offset)

\* Tensor.diag_embed() of a vector.
diag_embed(v) ==
    LET n == v.shape[1]
    IN  Tensor(<<n, n>>,
               [ix \in Idx(<<n, n>>) |->
                   IF ix[1] = ix[2] THEN v.at[<<ix[1]>>] ELSE 0])

\* torch.diagonal(L, dim1=-2, dim2=-1) of a matrix.
diagonal(L) ==
    LET n == Min(L.shape[1], L.shape[2])
    IN  Tensor(<<n>>, [ix \in Idx(<<n>>) |-> L.at[<<ix[1], ix[1]>>]])

\* L[row, col] = values: the k-th value is stored at the k-th coordinate.
IndexPut(L, coords, values) ==
    Tensor(L.shape,
           [ix \in Idx(L.shape) |->
               IF \E k \in 1..Len(coords) : coords[k] = ix
               THEN LET k == CHOOSE j \in 1..Len(coords) :
                                 /\ coords[j] = ix
                                 /\ \A j2 \in (j + 1)..Len(coords) : coords[j2] # ix
                    IN  values.at[<<k - 1>>]
               ELSE L.at[ix]])

\* L[row, col]: the vector of the elements at the coordinates, in order.
IndexGet(L, coords) ==
    Tensor(<<Len(coords)>>,
           [ix \in Idx(<<Len(coords)>>) |-> L.at[coords[ix[1] + 1]]])

\* ------------------------------------------------------ build_lower_matrix
\* (mutant) the off-diagonal values are consumed column by column.
build_lower_matrix_by_column(param_diag, param_off_diag) ==
    LET dim_pred == param_diag.shape[Len(param_diag.shape)]
        L == diag_embed(param_diag)
        lower == TrilFrom(0, dim_pred, dim_pred, -1)
        before(c) == Cardinality({j \in 1..Len(lower) : lower[j][2] < c})
        byColumn == [k \in 1..Len(lower) |->
                       LET c == CHOOSE c0 \in 0..(dim_pred - 1) :
                                  before(c0) < k /\ k <= before(c0 + 1)
                       IN  <<c + (k - before(c)), c>>]
    IN  IF param_off_diag.present
        THEN IndexPut(L, byColumn, param_off_diag.val)
        ELSE L

build_lower_matrix(param_diag, param_off_diag) ==
    LET dim_pred == param_diag.shape[Len(param_diag.shape)]
        L == diag_embed(param_diag)
    IN  IF param_off_diag.present
        THEN IndexPut(L, tril_indices(dim_pred, dim_pred, -1), param_off_diag.val)
        ELSE L

\* ---------------------------------------------------- reverse_build_matrix
\* (mutant) the off-diagonal values are read from above the diagonal.
reverse_build_matrix_upper(L, has_off_diag) ==
    LET param_diag == diagonal(L)
        n == L.shape[Len(L.shape)]
        lower == tril_indices(n, n, -1)
    IN  IF has_off_diag
        THEN <<param_diag,
               Some(IndexGet(L, [k \in 1..Len(lower) |-> <<lower[k][2], lower[k][1]>>]))>>
        ELSE <<param_diag, None>>

reverse_build_matrix(L, has_off_diag) ==
    LET param_diag == diagonal(L)
        n == L.shape[Len(L.shape)]
    IN  IF has_off_diag
        THEN <<param_diag, Some(IndexGet(L, tril_indices(n, n, -1)))>>
        ELSE <<param_diag, None>>

\* --------------------------------------------------- torch.linalg.cholesky
RECURSIVE SumTo(_, _)
SumTo(f, m) == IF m < 0 THEN 0 ELSE f[m] + SumTo(f, m - 1)

\* A @ A^T of a square matrix.
MatMulT(A) ==
    LET n == A.shape[1]
    IN  Tensor(<<n, n>>,
               [ix \in Idx(<<n, n>>) |->
                  SumTo([m \in 0..(n - 1) |-> A.at[<<ix[1], m>>] * A.at[<<ix[2], m>>]],
                        n - 1)])

\* The factor is filled row by row from the lower triangle of A; a pivot
\* that is not positive raises LinAlgError.  Arithmetic is exact: an entry
\* that is not an integer is outside the numbers carried here ("Inexact").
RECURSIVE CholFrom(_, _, _, _)
CholFrom(A, coords, k, L) ==
    IF k > Len(coords) THEN Ok(Tensor(A.shape, L))
    ELSE LET i == coords[k][1]
             j == coords[k][2]
             s == A.at[<<i, j>>]
                    - SumTo([m \in 0..(j - 1) |-> L[<<i, m>>] * L[<<j, m>>]], j - 1)
         IN  IF i = j
             THEN IF s <= 0 THEN Raise("LinAlgError")
                  ELSE IF \E q \in 1..s : q * q = s
                       THEN CholFrom(A, coords, k + 1,
                                     [L EXCEPT ![<<i, j>>] = CHOOSE q \in 1..s : q * q = s])
                       ELSE Raise("Inexact")
             ELSE IF s % L[<<j, j>>] = 0
                  THEN CholFrom(A, coords, k + 1,
                                [L EXCEPT ![<<i, j>>] = s \div L[<<j, j>>]])
                  ELSE Raise("Inexact")

cholesky(A) ==
    LET n == A.shape[1]
    IN  CholFrom(A, tril_indices(n, n, 0), 1, [ix \in Idx(<<n, n>>) |-> 0])

\* ------------------------------------------------------------- to_cholesky
\* A result together with the helpers that were invoked to produce it.
Traced(r, calls) ==
    [ok |-> r.ok, err |-> r.err, val |-> r.val, calls |-> calls]

\* (mutant) the covariance matrix is looked at before L.
to_cholesky_cov_first(diag_vector, off_diag_vector, L, cov_matrix) ==
    IF cov_matrix.present /\ ~diag_vector.present /\ ~off_diag_vector.present
    THEN Traced(cholesky(cov_matrix.val), {"cholesky"})
    ELSE IF L.present
    THEN Traced(Ok(L.val), {})
    ELSE IF ~cov_matrix.present
    THEN IF ~(diag_vector.present /\ off_diag_vector.present)
         THEN Traced(Raise("AssertionError"), {})
         ELSE Traced(Ok(build_lower_matrix(diag_vector.val, off_diag_vector)),
                     {"build_lower_matrix"})
    ELSE Traced(Raise("RuntimeError"), {})

\* (mutant) the assertion asks for one of the two vectors only.
to_cholesky_weak_assert(diag_vector, off_diag_vector, L, cov_matrix) ==
    IF L.present
    THEN Traced(Ok(L.val), {})
    ELSE IF ~cov_matrix.present
    THEN IF ~(diag_vector.present \/ off_diag_vector.present)
         THEN Traced(Raise("AssertionError"), {})
         ELSE IF ~diag_vector.present
         THEN Traced(Raise("AttributeError"), {"build_lower_matrix"})
         ELSE Traced(Ok(build_lower_matrix(diag_vector.val, off_diag_vector)),
                     {"build_lower_matrix"})
    ELSE IF ~diag_vector.present /\ ~off_diag_vector.present
    THEN Traced(cholesky(cov_matrix.val), {"cholesky"})
    ELSE Traced(Raise("RuntimeError"), {})

to_cholesky(diag_vector, off_diag_vector, L, cov_matrix) ==
    IF L.present
    THEN Traced(Ok(L.val), {})
    ELSE IF ~cov_matrix.present
    THEN IF ~(diag_vector.present /\ off_diag_vector.present)
         THEN Traced(Raise("AssertionError"), {})
         ELSE Traced(Ok(build_lower_matrix(diag_vector.val, off_diag_vector)),
                     {"build_lower_matrix"})
    ELSE IF ~diag_vector.present /\ ~off_diag_vector.present
    THEN Traced(cholesky(cov_matrix.val), {"cholesky"})
    ELSE Traced(Raise("RuntimeError"), {})

\* ---------------------------------------------------------- add_expand_dim
InList(x, lst) == \E k \in 1..Len(lst) : lst[k] = x

\* The entries of ix at the positions that mask does not mark.
RECURSIVE Unmarked(_, _)
Unmarked(ix, mask) ==
    IF Len(ix) = 0 THEN <<>>
    ELSE (IF Head(mask) THEN <<>> ELSE <<Head(ix)>>) \o Unmarked(Tail(ix), Tail(mask))

\* kind is "torch" (torch.Tensor, torch.nn.Parameter), "numpy" (np.ndarray)
\* or "other" (any other type that has ndim).  The loop over the result's
\* axes marks an axis as new when its number is in add_dim_indices or in
\* add_dim_reverse_indices, and gives it the next unused entry of
\* add_dim_sizes; data[None / :, ...] then inserts the new axes and
\* expand / np.tile replicates along them.
add_expand_dim(data, kind, add_dim_indices, add_dim_sizes) ==
    LET num_data_dim == Rank(data)
        num_dim_to_add == Len(add_dim_indices)
        total == num_data_dim + num_dim_to_add
        add_dim_reverse_indices ==
            [k \in 1..num_dim_to_add |-> total + add_dim_indices[k]]
        is_new == [d \in 1..total |->
                     \/ InList(d - 1, add_dim_indices)
                     \/ InList(d - 1, add_dim_reverse_indices)]
        add_dim_index(d) == Cardinality({e \in 1..(d - 1) : is_new[e]})
        num_colon == Cardinality({e \in 1..total : ~is_new[e]})
        loop_error(d) ==
            IF is_new[d]
            THEN IF add_dim_index(d) + 1 > Len(add_dim_sizes) THEN "IndexError" ELSE ""
            ELSE IF kind \in {"torch", "numpy"} THEN "" ELSE "NotImplementedError"
        view_shape == [d \in 1..total |->
                         IF is_new[d] THEN 1
                         ELSE data.shape[d - add_dim_index(d)]]
        str_expand == [d \in 1..total |->
                         IF is_new[d] THEN add_dim_sizes[add_dim_index(d) + 1]
                         ELSE IF kind = "torch" THEN -1 ELSE 1]
        element == [ix \in Idx(view_shape) |-> data.at[Unmarked(ix, is_new)]]
    IN  IF \E d \in 1..total : loop_error(d) # ""
        THEN Raise(loop_error(CHOOSE d \in 1..total :
                                /\ loop_error(d) # ""
                                /\ \A e \in 1..(d - 1) : loop_error(e) = ""))
        ELSE IF num_colon > num_data_dim
        THEN Raise("IndexError")
        ELSE IF kind = "torch"
        THEN IF \E d \in 1..total : str_expand[d] < -1
             THEN Raise("RuntimeError")
             ELSE LET shape == [d \in 1..total |->
                                  IF str_expand[d] = -1 THEN view_shape[d]
                                  ELSE str_expand[d]]
                  IN  Ok(Tensor(shape,
                                [ix \in Idx(shape) |-> data.at[Unmarked(ix, is_new)]]))
        ELSE IF \E d \in 1..total : str_expand[d] < 0
             THEN Raise("ValueError")
             ELSE LET shape == [d \in 1..total |-> view_shape[d] * str_expand[d]]
                  IN  Ok(Tensor(shape,
                                [ix \in Idx(shape) |-> data.at[Unmarked(ix, is_new)]]))

\* ---------------------------------------------------------- get_sub_tensor
\* A selector is an integer index, a slice start:stop or a list of indices.
IntSel(i) == [kind |-> "int", i |-> i, items |-> <<>>]
SliceSel(a, b) == [kind |-> "slice", i |-> 0, items |-> <<a, b>>]
ListSel(l) == [kind |-> "list", i |-> 0, items |-> l]

InsertAt(ix, axis, v) ==
    SubSeq(ix, 1, axis - 1) \o <<v>> \o SubSeq(ix, axis, Len(ix))
ReplaceAt(ix, axis, v) == [ix EXCEPT ![axis] = v]
RemoveAt(s, axis) == SubSeq(s, 1, axis - 1) \o SubSeq(s, axis + 1, Len(s))

\* The positions of an axis of the given size that a selector picks, in
\* order (one position for an integer), or <<-1>> when one is out of range.
Picks(sel, size) ==
    LET norm(i) == IF i < 0 THEN i + size ELSE i
    IN  IF sel.kind = "int"
        THEN IF norm(sel.i) \in 0..(size - 1) THEN <<norm(sel.i)>> ELSE <<-1>>
        ELSE IF sel.kind = "slice"
        THEN LET a == Min(sel.items[1], size)
                 b == Min(sel.items[2], size)
             IN  [k \in 1..Max(0, b - a) |-> a + k - 1]
        ELSE IF \A k \in 1..Len(sel.items) : norm(sel.items[k]) \in 0..(size - 1)
             THEN [k \in 1..Len(sel.items) |-> norm(sel.items[k])]
             ELSE <<-1>>

\* t[:, ..., :, sel] with ncolon colons before sel: an integer removes the
\* axis it indexes, a slice or a list keeps it.
GetItem(t, ncolon, sel) ==
    IF ncolon + 1 > Rank(t) THEN Raise("IndexError")
    ELSE LET axis == ncolon + 1
             p == Picks(sel, t.shape[axis])
         IN  IF p = <<-1>> THEN Raise("IndexError")
             ELSE IF sel.kind = "int"
             THEN LET shape == RemoveAt(t.shape, axis)
                  IN  Ok(Tensor(shape,
                                [ix \in Idx(shape) |-> t.at[InsertAt(ix, axis, p[1])]]))
             ELSE LET shape == ReplaceAt(t.shape, axis, Len(p))
                  IN  Ok(Tensor(shape,
                                [ix \in Idx(shape) |->
                                   t.at[ReplaceAt(ix, axis, p[ix[axis] + 1])]]))

\* eval("data" + exp_str): the bracket built for dims[i] is applied to the
\* result of the brackets before it; ":, " * dim is empty for dim < 0.
RECURSIVE EvalChain(_, _, _, _, _)
EvalChain(t, ndim, dims, indices, i) ==
    IF i > Len(dims) THEN Ok(t)
    ELSE LET dim == IF dims[i] < 0 THEN dims[i] + ndim ELSE dims[i]
             r == GetItem(t, Max(dim, 0), indices[i])
         IN  IF r.ok THEN EvalChain(r.val, ndim, dims, indices, i + 1) ELSE r

get_sub_tensor(data, dims, indices) ==
    EvalChain(data, Rank(data), dims, indices, 1)

\* --------------------------------------------------------- tensor_linspace
\* A Python scalar is held like a rank-0 tensor and flagged as no tensor.
Scalar(v) == [is_tensor |-> FALSE, t |-> Tensor(<<>>, [ix \in Idx(<<>>) |-> v])]
AsTensor(t) == [is_tensor |-> TRUE, t |-> t]

\* A number that is not an integer is carried as a numerator over den.
Scaled(den, t) == [den |-> den, t |-> t]

\* torch.linspace(a, b, steps) as numerators over LinDen(steps): steps
\* evenly spaced values from a to b, both included; one step gives a alone.
LinDen(steps) == Max(steps - 1, 1)

\* (mutant) the k-th value is taken one step too far.
linspace_off_by_one(a, b, steps) ==
    Tensor(<<steps>>,
           [ix \in Idx(<<steps>>) |-> a * LinDen(steps) + (ix[1] + 1) * (b - a)])

linspace(a, b, steps) ==
    Tensor(<<steps>>,
           [ix \in Idx(<<steps>>) |-> a * LinDen(steps) + ix[1] * (b - a)])

\* torch.zeros_like(t) + v
FullLike(t, v) == Tensor(t.shape, [ix \in Idx(t.shape) |-> v])

\* (mutant) the axes are left in place.
SwapLastTwo_kept(t) == Ok(t)

\* torch.einsum('...ji->...ij', t): the last two axes change places; the
\* equation has two subscripts, so a tensor of rank below 2 is rejected.
SwapLastTwo(t) ==
    IF Rank(t) < 2 THEN Raise("RuntimeError")
    ELSE LET r == Rank(t)
             swap(s) == [s EXCEPT ![r - 1] = s[r], ![r] = s[r - 1]]
         IN  Ok(Tensor(swap(t.shape),
                       [ix \in Idx(swap(t.shape)) |-> t.at[swap(ix)]]))

tensor_linspace(start, end, steps) ==
    IF ~start.is_tensor /\ ~end.is_tensor
    THEN Ok(Scaled(LinDen(steps),
                   linspace(start.t.at[<<>>], end.t.at[<<>>], steps)))
    ELSE IF start.is_tensor /\ end.is_tensor /\ start.t.shape # end.t.shape
    THEN Raise("AssertionError")
    ELSE LET s == IF start.is_tensor THEN start.t
                  ELSE FullLike(end.t, start.t.at[<<>>])
             e == IF end.is_tensor THEN end.t
                  ELSE FullLike(start.t, end.t.at[<<>>])
             out_size == Append(s.shape, steps)
             start_w == linspace(1, 0, steps)
             end_w == linspace(0, 1, steps)
             out == Tensor(out_size,
                           [ix \in Idx(out_size) |->
                              start_w.at[<<Last(ix)>>] * s.at[Front(ix)]
                                + end_w.at[<<Last(ix)>>] * e.at[Front(ix)]])
             swapped == SwapLastTwo(out)
         IN  IF swapped.ok THEN Ok(Scaled(LinDen(steps), swapped.val))
             ELSE swapped

\* ---------------------------------------------------- indexing_interpolate
\* (mutant) the value is passed through as it is.
Clip_absent(x, lo, hi) == x

\* torch.clip(x, lo, hi)
Clip(x, lo, hi) == Min(Max(x, lo), hi)

\* data[index] for a tensor of integer indices into the first axis: the
\* result has the shape of index followed by data's other axes; a negative
\* index counts from the end and one outside the axis raises IndexError.
TakeRows(data, index) ==
    LET n == data.shape[1]
        norm(i) == IF i < 0 THEN i + n ELSE i
        shape == index.shape \o Tail(data.shape)
        r == Rank(index)
    IN  IF \E ix \in Idx(index.shape) : norm(index.at[ix]) \notin 0..(n - 1)
        THEN Raise("IndexError")
        ELSE Ok(Tensor(shape,
                       [ix \in Idx(shape) |->
                          data.at[<<norm(index.at[SubSeq(ix, 1, r)])>>
                                    \o SubSeq(ix, r + 1, Len(ix))]]))

\* torch.lerp(a, b, w) = a + w * (b - a), w (a numerator over den)
\* broadcast along its axes of size 1; the result is a numerator over den.
Lerp(a, b, w, den) ==
    IF \/ Rank(w) # Rank(a)
       \/ \E d \in 1..Rank(a) : w.shape[d] # 1 /\ w.shape[d] # a.shape[d]
       \/ \E d \in 1..Rank(a) : a.shape[d] = 1 /\ w.shape[d] # 1
    THEN Raise("RuntimeError")
    ELSE Ok(Tensor(a.shape,
                   [ix \in Idx(a.shape) |->
                      LET wx == w.at[[d \in 1..Rank(a) |->
                                        IF w.shape[d] = 1 THEN 0 ELSE ix[d]]]
                      IN  a.at[ix] * den + wx * (b.at[ix] - a.at[ix])]))

\* indices is Scaled(den, t): the fractional indices as numerators over den.
indexing_interpolate(data, indices) ==
    LET den == indices.den
        ndim_data == Rank(data) - 1
        indices_0 == Tensor(indices.t.shape,
                            [ix \in Idx(indices.t.shape) |->
                               Clip(indices.t.at[ix] \div den, 0, data.shape[1] - 2)])
        indices_1 == Tensor(indices.t.shape,
                            [ix \in Idx(indices.t.shape) |-> indices_0.at[ix] + 1])
        weights == Tensor(indices.t.shape,
                          [ix \in Idx(indices.t.shape) |->
                             indices.t.at[ix] - den * indices_0.at[ix]])
        expanded == IF ndim_data > 0
                    THEN add_expand_dim(weights, "torch",
                                        [k \in 1..ndim_data |-> Rank(indices.t) + k - 1],
                                        [k \in 1..ndim_data |-> -1])
                    ELSE Ok(weights)
        lo == TakeRows(data, indices_0)
        hi == TakeRows(data, indices_1)
    IN  IF ~expanded.ok THEN expanded
        ELSE IF ~lo.ok THEN lo
        ELSE IF ~hi.ok THEN hi
        ELSE LET r == Lerp(lo.val, hi.val, expanded.val, den)
             IN  IF r.ok THEN Ok(Scaled(den, r.val)) ELSE r

\* ------------------------------------------------------------------ caller
Init ==
    /\ fn = "idle"
    /\ input = <<>>
    /\ output = <<>>
    /\ prev = <<>>

OffDiagLen(dim) == (dim * (dim - 1)) \div 2

\* The vectors of length n that are zero outside the positions nz, where
\* they hold the values of g (positions numbered from `from`).
Scatter(n, from, nz, g) ==
    Tensor(<<n>>, [ix \in Idx(<<n>>) |->
                      IF (from + ix[1]) \in nz THEN g[from + ix[1]] ELSE 0])

\* The (diag, off_diag) arguments of dimension dim with at most MaxNonZero
\* non-zero entries among them; off_diag is absent or of length dim*(dim-1)/2.
BuildInputs(dim) ==
    LET withOff ==
          {[param_diag |-> Scatter(dim, 0, nz, g),
            param_off_diag |-> Some(Scatter(OffDiagLen(dim), dim, nz, g))] :
              <<nz, g>> \in
                UNION {{<<z, h>> : h \in [z -> 1..MaxVal]} :
                         z \in {y \in SUBSET (0..(dim + OffDiagLen(dim) - 1)) :
                                  Cardinality(y) <= MaxNonZero}}}
        noOff ==
          {[param_diag |-> Scatter(dim, 0, nz, g), param_off_diag |-> None] :
              <<nz, g>> \in
                UNION {{<<z, h>> : h \in [z -> 1..MaxVal]} :
                         z \in {y \in SUBSET (0..(dim - 1)) :
                                  Cardinality(y) <= MaxNonZero}}}
    IN  withOff \cup noOff

CallBuildLowerMatrix ==
    /\ fn = "idle"
    /\ \E dim \in 1..MaxDim :
         \E a \in BuildInputs(dim) :
              /\ input' = a
              /\ output' = Ok(build_lower_matrix(a.param_diag, a.param_off_diag))
    /\ fn' = "build_lower_matrix"
    /\ prev' = <<>>

\* The caller decomposes the matrix it has just built.
CallReverseBuildMatrix ==
    /\ fn = "build_lower_matrix"
    /\ \E has_off_diag \in BOOLEAN :
          /\ input' = [L |-> output.val, has_off_diag |-> has_off_diag]
          /\ output' = Ok(reverse_build_matrix(output.val, has_off_diag))
    /\ fn' = "reverse_build_matrix"
    /\ prev' = input

Opt(present, v) == IF present THEN Some(v) ELSE None

\* The caller holds one parameterisation (d, o) of a distribution, the
\* covariance L0 @ L0^T it stands for, and some Cholesky matrix l, and passes
\* any subset of the four fields.
CallToCholesky ==
    /\ fn = "idle"
    /\ \E dim \in 1..MaxCholDim :
         \E d \in Vectors(dim, Vals), o \in Vectors(OffDiagLen(dim), Vals), c \in Vals :
           \E hasD \in BOOLEAN, hasO \in BOOLEAN, hasL \in BOOLEAN, hasCov \in BOOLEAN :
             LET l == diag_embed(Tensor(<<dim>>, [ix \in Idx(<<dim>>) |-> c]))
                 cov == MatMulT(build_lower_matrix(d, Some(o)))
                 a == [diag_vector |-> Opt(hasD, d),
                       off_diag_vector |-> Opt(hasO, o),
                       L |-> Opt(hasL, l),
                       cov_matrix |-> Opt(hasCov, cov)]
             IN  /\ input' = a
                 /\ output' = to_cholesky(a.diag_vector, a.off_diag_vector,
                                          a.L, a.cov_matrix)
    /\ fn' = "to_cholesky"
    /\ prev' = <<>>

\* The tensor of rank n whose axis j (from 0) has size j + 2 and whose
\* element at an index is that index: every element names its own origin.
StairShape(n) == [j \in 1..n |-> j + 1]
IndexTensor(shape) == Tensor(shape, [ix \in Idx(shape) |-> ix])

\* All sequences of length n over S.
Seqs(n, S) == [1..n -> S]

\* add_dim_sizes is <<2, 3, ...>>, the same in descending order, or all -1
\* (as indexing_interpolate passes it).
CallAddExpandDim ==
    /\ fn = "idle"
    /\ \E n \in 0..MaxRank, m \in 1..MaxAdd, kind \in {"torch", "numpy", "other"} :
         \E idx \in Seqs(m, (-(n + m))..(n + m - 1)) :
           \E sizes \in {[k \in 1..m |-> k + 1], [k \in 1..m |-> m - k + 2],
                          [k \in 1..m |-> -1]} :
              /\ input' = [data |-> IndexTensor(StairShape(n)), kind |-> kind,
                           add_dim_indices |-> idx, add_dim_sizes |-> sizes]
              /\ output' = add_expand_dim(IndexTensor(StairShape(n)), kind, idx, sizes)
    /\ fn' = "add_expand_dim"
    /\ prev' = <<>>

\* An integer from the front, one from the end, a slice and a list.
Selectors ==
    {IntSel(MaxIndex), IntSel(-1),
     SliceSel(MaxIndex, MaxIndex + 1), ListSel(<<MaxIndex, 0>>)}

CallGetSubTensor ==
    /\ fn = "idle"
    /\ \E n \in 1..(MaxRank + 1), m \in 1..MaxRank :
         \E dims \in Seqs(m, (-n)..(n - 1)), indices \in Seqs(m, Selectors) :
              /\ input' = [data |-> IndexTensor(StairShape(n)),
                           dims |-> dims, indices |-> indices]
              /\ output' = get_sub_tensor(IndexTensor(StairShape(n)), dims, indices)
    /\ fn' = "get_sub_tensor"
    /\ prev' = <<>>

\* The position of an index in row-major order.
RECURSIVE FlatIndex(_, _)
FlatIndex(ix, shape) ==
    IF Len(ix) = 0 THEN 0
    ELSE FlatIndex(Front(ix), Front(shape)) * Last(shape) + Last(ix)

\* The tensor whose element at position p (row-major) is a + slope * p.
Ramp(shape, a, slope) ==
    Tensor(shape, [ix \in Idx(shape) |-> a + slope * FlatIndex(ix, shape)])

\* start and end arguments: scalars, constant tensors and ramps.
LinspaceArgs(slope) ==
    {Scalar(a) : a \in Vals}
      \cup {AsTensor(Ramp(StairShape(n), a, k)) :
              n \in 0..MaxRank, a \in Vals, k \in {0, slope}}

CallTensorLinspace ==
    /\ fn = "idle"
    /\ \E start \in LinspaceArgs(1), end \in LinspaceArgs(-2), steps \in 1..MaxSteps :
              /\ input' = [start |-> start, end |-> end, steps |-> steps]
              /\ output' = tensor_linspace(start, end, steps)
    /\ fn' = "tensor_linspace"
    /\ prev' = <<>>

\* data of shape [num_data] or [num_data, 2]: row r of the second kind is
\* <<v[r], 2 * v[r]>> for the same vector v.
InterpolateData(num_data) ==
    Vectors(num_data, Vals)
      \cup {Tensor(<<num_data, 2>>,
                   [ix \in Idx(<<num_data, 2>>) |-> v.at[<<ix[1]>>] * (ix[2] + 1)]) :
              v \in Vectors(num_data, Vals)}

\* Fractional indices are multiples of 1/IndexDen, from below 0 to above
\* the last row.
CallIndexingInterpolate ==
    /\ fn = "idle"
    /\ \E num_data \in 1..MaxRows, r \in 0..MaxRank :
         \E data \in InterpolateData(num_data),
            i \in (-2 * IndexDen)..((num_data + 1) * IndexDen) :
              LET indices == Scaled(IndexDen, Ramp(StairShape(r), i, 1))
              IN  /\ input' = [data |-> data, indices |-> indices]
                  /\ output' = indexing_interpolate(data, indices)
    /\ fn' = "indexing_interpolate"
    /\ prev' = <<>>

Return ==
    /\ fn # "idle"
    /\ fn' = "idle"
    /\ input' = <<>>
    /\ output' = <<>>
    /\ prev' = <<>>

Next ==
    \/ CallBuildLowerMatrix
    \/ CallReverseBuildMatrix
    \/ CallToCholesky
    \/ CallAddExpandDim
    \/ CallGetSubTensor
    \/ CallTensorLinspace
    \/ CallIndexingInterpolate
    \/ Return

Spec == Init /\ [][Next]_vars

\* ------------------------------------------------------------------ claims
\* C1: decomposing the matrix built from (diag, off_diag), with has_off_diag
\* set exactly when off_diag was given, returns (diag, off_diag): the same
\* diagonal, the same off-diagonal vector in the same order, and None when
\* off_diag was absent.
RoundTripExact ==
    (fn = "reverse_build_matrix"
       /\ input.has_off_diag = prev.param_off_diag.present)
    => /\ output.ok
       /\ output.val[1] = prev.param_diag
       /\ output.val[2].present = prev.param_off_diag.present
       /\ prev.param_off_diag.present
            => output.val[2].val = prev.param_off_diag.val

RoundTripWitness ==
    /\ fn = "reverse_build_matrix"
    /\ input.has_off_diag
    /\ prev.param_off_diag.present
    /\ prev.param_diag.shape = <<MaxDim>>
    /\ prev.param_off_diag.val.at[<<2>>] # prev.param_off_diag.val.at[<<3>>]
    /\ output.val[2].val = prev.param_off_diag.val

\* C9: build_lower_matrix puts diag on the diagonal, zero above it, and
\* below it either zero (off_diag absent) or off_diag[r*(r-1)/2 + c] at row r,
\* column c < r, so that every off_diag value is placed exactly once.
LowerMatrixLayout ==
    fn = "build_lower_matrix" =>
      LET dim == input.param_diag.shape[1]
          L == output.val
      IN  /\ output.ok
          /\ L.shape = <<dim, dim>>
          /\ \A r \in 0..(dim - 1) : \A c \in 0..(dim - 1) :
                L.at[<<r, c>>] =
                  IF r = c THEN input.param_diag.at[<<r>>]
                  ELSE IF c > r THEN 0
                  ELSE IF input.param_off_diag.present
                       THEN input.param_off_diag.val.at[<<(r * (r - 1)) \div 2 + c>>]
                       ELSE 0
          /\ input.param_off_diag.present =>
                \A k \in 0..(OffDiagLen(dim) - 1) :
                  Cardinality({rc \in Idx(<<dim, dim>>) :
                                 /\ rc[2] < rc[1]
                                 /\ (rc[1] * (rc[1] - 1)) \div 2 + rc[2] = k}) = 1

LowerMatrixLayoutWitness ==
    /\ fn = "build_lower_matrix"
    /\ input.param_diag.shape = <<MaxDim>>
    /\ input.param_off_diag.present
    /\ input.param_off_diag.val.at[<<3>>] # 0
    /\ input.param_off_diag.val.at[<<2>>] = 0
    /\ output.val.at[<<3, 0>>] # 0

\* C5: with L absent, to_cholesky builds the matrix from the two vectors when
\* cov_matrix is absent and both vectors are given, fails with an assertion
\* error when cov_matrix is absent and a vector is missing, factorises
\* cov_matrix when it is given and both vectors are absent, and fails with a
\* runtime error when cov_matrix is given together with a vector; no other
\* pattern returns a value.
ToCholeskyDispatch ==
    (fn = "to_cholesky" /\ ~input.L.present) =>
      LET d == input.diag_vector.present
          o == input.off_diag_vector.present
          c == input.cov_matrix.present
      IN  /\ (~c /\ d /\ o) =>
                /\ output.ok
                /\ output.val = build_lower_matrix(input.diag_vector.val,
                                                   input.off_diag_vector)
          /\ (~c /\ ~(d /\ o)) => (~output.ok /\ output.err = "AssertionError")
          /\ (c /\ ~d /\ ~o) =>
                /\ output.calls = {"cholesky"}
                /\ output.err \in {"", "LinAlgError"}
                /\ output.ok =>
                     /\ MatMulT(output.val) = input.cov_matrix.val
                     /\ \A ix \in Idx(output.val.shape) :
                          /\ ix[2] > ix[1] => output.val.at[ix] = 0
                          /\ ix[2] = ix[1] => output.val.at[ix] > 0
          /\ (c /\ (d \/ o)) => (~output.ok /\ output.err = "RuntimeError")
          /\ output.ok => ((~c /\ d /\ o) \/ (c /\ ~d /\ ~o))

ToCholeskyDispatchWitness ==
    /\ fn = "to_cholesky"
    /\ ~input.L.present
    /\ input.cov_matrix.present
    /\ ~input.diag_vector.present
    /\ ~input.off_diag_vector.present
    /\ output.ok
    /\ output.val.shape = <<MaxCholDim, MaxCholDim>>

\* C6: whenever L is given, to_cholesky returns that L unchanged, whatever
\* else is given: no error is raised and neither build_lower_matrix nor the
\* factorisation runs.
ToCholeskyLWins ==
    (fn = "to_cholesky" /\ input.L.present) =>
      /\ output.ok
      /\ output.val = input.L.val
      /\ output.calls = {}

ToCholeskyLWinsWitness ==
    /\ fn = "to_cholesky"
    /\ input.L.present
    /\ input.cov_matrix.present
    /\ input.diag_vector.present
    /\ ~input.off_diag_vector.present
    /\ output.ok
    /\ output.val = input.L.val

\* C7: for add_dim_indices naming distinct positions of the result (negative
\* ones counted from its end) in any list order, and positive add_dim_sizes
\* of the same length, the result has rank n + m, its axis add_dim_indices[k]
\* has size add_dim_sizes[k] for every k, and its other axes are the axes of
\* data in their order, with the elements of data replicated along the new
\* axes.
AddExpandDimPairsSizeWithIndex ==
    fn = "add_expand_dim" =>
      LET n == Rank(input.data)
          m == Len(input.add_dim_indices)
          pos == [k \in 1..m |->
                    IF input.add_dim_indices[k] < 0
                    THEN n + m + input.add_dim_indices[k]
                    ELSE input.add_dim_indices[k]]
          new == [d \in 1..(n + m) |-> InList(d - 1, pos)]
      IN  ( /\ input.kind \in {"torch", "numpy"}
            /\ Len(input.add_dim_sizes) = m
            /\ \A k \in 1..m : input.add_dim_sizes[k] >= 1
            /\ \A k \in 1..m : pos[k] \in 0..(n + m - 1)
            /\ \A j, k \in 1..m : j # k => pos[j] # pos[k] )
          => /\ output.ok
             /\ Len(output.val.shape) = n + m
             /\ \A k \in 1..m : output.val.shape[pos[k] + 1] = input.add_dim_sizes[k]
             /\ Unmarked(output.val.shape, new) = input.data.shape
             /\ \A ix \in Idx(output.val.shape) :
                  output.val.at[ix] = input.data.at[Unmarked(ix, new)]

\* C2: for distinct axes dims (negative ones counted from the end of data's
\* rank) and selectors that are in range, get_sub_tensor returns the
\* selection of indices[k] along axis dims[k] of the original array for
\* every k, all other axes in full: an axis selected by an integer is
\* dropped, and no selection renumbers the axes the later ones refer to.
SubTensorUsesOriginalAxes ==
    fn = "get_sub_tensor" =>
      LET data == input.data
          n == Rank(data)
          m == Len(input.dims)
          axis == [k \in 1..m |->
                     IF input.dims[k] < 0 THEN input.dims[k] + n ELSE input.dims[k]]
          chosen(a) == \E k \in 1..m : axis[k] = a - 1
          selOf(a) == input.indices[CHOOSE k \in 1..m : axis[k] = a - 1]
          picks == [a \in 1..n |->
                      IF chosen(a) THEN Picks(selOf(a), data.shape[a])
                      ELSE [k \in 1..data.shape[a] |-> k - 1]]
          dropped == [a \in 1..n |-> chosen(a) /\ selOf(a).kind = "int"]
          shape == Unmarked([a \in 1..n |-> Len(picks[a])], dropped)
          kept(a) == Cardinality({b \in 1..a : ~dropped[b]})
          source(ix) == [a \in 1..n |->
                           IF dropped[a] THEN picks[a][1]
                           ELSE picks[a][ix[kept(a)] + 1]]
      IN  ( /\ \A j, k \in 1..m : j # k => axis[j] # axis[k]
            /\ \A a \in 1..n : picks[a] # <<-1>> )
          => /\ output.ok
             /\ output.val.shape = shape
             /\ \A ix \in Idx(shape) : output.val.at[ix] = data.at[source(ix)]

\* The start and end arrays interpolated between, a scalar argument
\* broadcast to the shape of the other one.
LinStart == IF input.start.is_tensor THEN input.start.t
            ELSE FullLike(input.end.t, input.start.t.at[<<>>])
LinEnd == IF input.end.is_tensor THEN input.end.t
          ELSE FullLike(input.start.t, input.end.t.at[<<>>])
LinArrayCall ==
    /\ fn = "tensor_linspace"
    /\ input.start.is_tensor \/ input.end.is_tensor
    /\ LinStart.shape = LinEnd.shape

TakeLast(t, j) ==
    Tensor(Front(t.shape), [ix \in Idx(Front(t.shape)) |-> t.at[Append(ix, j)]])
TakeSecondToLast(t, j) ==
    LET shape == RemoveAt(t.shape, Len(t.shape) - 1)
    IN  Tensor(shape, [ix \in Idx(shape) |-> t.at[InsertAt(ix, Len(t.shape) - 1, j)]])
Times(den, t) == Tensor(t.shape, [ix \in Idx(t.shape) |-> den * t.at[ix]])

LinAnyCall ==
    /\ fn = "tensor_linspace"
    /\ (input.start.is_tensor /\ input.end.is_tensor)
         => input.start.t.shape = input.end.t.shape

InterpolateCall == fn = "indexing_interpolate" /\ input.data.shape[1] >= 2
IndexOf(ix) == input.indices.t.at[SubSeq(ix, 1, Rank(input.indices.t))]
RowAt(k, ix) ==
    input.data.at[<<k>> \o SubSeq(ix, Rank(input.indices.t) + 1, Len(ix))]
InterpolateShape == input.indices.t.shape \o Tail(input.data.shape)

\* C3: with at least two rows, an index below 0 gives data[0] and an index
\* above num_data-1 gives data[num_data-1]; no error is raised and nothing
\* is extrapolated.
InterpolateClampsOutOfRange ==
    InterpolateCall =>
      /\ output.ok
      /\ \A ix \in Idx(InterpolateShape) :
           /\ IndexOf(ix) < 0 => output.val.t.at[ix] = input.indices.den * RowAt(0, ix)
           /\ IndexOf(ix) > (input.data.shape[1] - 1) * input.indices.den
                => output.val.t.at[ix]
                     = input.indices.den * RowAt(input.data.shape[1] - 1, ix)

\* C10: with at least two rows the result has the shape of indices followed
\* by data's trailing axes, and for every index i with 0 <= i <= num_data-1
\* it is data[k] + (i-k)*(data[k+1]-data[k]) with k = min(floor(i), num_data-2)
\* and a weight i-k within [0, 1]; an integer i gives data[i] exactly, the
\* last row included.
InterpolateInRange ==
    InterpolateCall =>
      /\ output.ok
      /\ output.val.t.shape = InterpolateShape
      /\ \A ix \in Idx(InterpolateShape) :
           LET i == IndexOf(ix)
               n == input.data.shape[1]
               k == Min(i \div input.indices.den, n - 2)
               w == i - k * input.indices.den
           IN  (0 <= i /\ i <= (n - 1) * input.indices.den) =>
                 /\ 0 <= w /\ w <= input.indices.den
                 /\ output.val.t.at[ix] =
                      input.indices.den * RowAt(k, ix) + w * (RowAt(k + 1, ix) - RowAt(k, ix))
                 /\ i % input.indices.den = 0 =>
                      output.val.t.at[ix] = input.indices.den * RowAt(i \div input.indices.den, ix)

InterpolateInRangeWitness ==
    /\ InterpolateCall
    /\ input.data.shape = <<MaxRows, 2>>
    /\ input.indices.t.shape = <<2>>
    /\ input.indices.t.at[<<1>>] = (MaxRows - 1) * input.indices.den
    /\ input.indices.t.at[<<0>>] % input.indices.den # 0
    /\ output.ok
    /\ output.val.t.shape = <<2, 2>>
    /\ output.val.t.at[<<1, 1>>] = input.indices.den * input.data.at[<<MaxRows - 1, 1>>]
    /\ input.data.at[<<MaxRows - 1, 0>>] # input.data.at[<<MaxRows - 2, 0>>]

====
